---- MODULE Spec2Model ----
(***************************************************************************)
(* Model of the fair dice game of src/game.js: the HMAC commitment         *)
(* (FairRandomGenerator), the win-probability calculator                   *)
(* (ProbabilityCalculator) and the interactive game loop (Game).           *)
(*                                                                         *)
(* Three specifications share the module:                                  *)
(*   Spec      the game, from Game.start() to its end, one action per      *)
(*             statement group of the Game methods;                        *)
(*   SpecFRG   the FairRandomGenerator class driven directly, with any     *)
(*             rangeSize and any argument of computeResult;                *)
(*   SpecProb  ProbabilityCalculator.calculateWinProbability applied to    *)
(*             pairs of dice drawn from a bounded set.                     *)
(***************************************************************************)
EXTENDS Integers, Sequences, FiniteSets, TLC

VARIABLES
    dice,         \* Game.dice: the sequence of Dice (each a sequence of faces)
    pc,           \* position of the game in Game.start and its callees
    gens,         \* every FairRandomGenerator object built so far, in order
    fr,           \* the local `fairRandom`: index into gens, 0 when none
    rollOf,       \* which die performFairRoll is rolling: "computer"/"user"/"none"
    max,          \* parameter `max` of performFairRoll (-1 outside it)
    userChoice,   \* local `userChoice`: the accepted option ("" while unset)
    userY,        \* local `userY` (-1 while unset)
    result,       \* local `result` (-1 while unset)
    firstPlayer,  \* Game.firstPlayer: "null", "user" or "computer"
    userDie,      \* Game.userDie: position of the die in dice, 0 for null
    computerDie,  \* Game.computerDie: position of the die in dice, 0 for null
    computerRoll, \* local `computerRoll` of performThrows (-1 while unset)
    userRoll,     \* local `userRoll` of performThrows (-1 while unset)
    combines,     \* per object of gens: the arguments computeResult was called with
    out,          \* console output, in order
    entropy,      \* state of the secure random source: seed of the next key
    rngTrace,     \* calls to the secure random source by the latest constructor
    h,            \* SpecFRG: the object under test, the last call and its outcome
    q,            \* SpecProb: the pair of dice and the computed probabilities
    sel,          \* SpecAvg, SpecSelect: the dice, the call and its outcome
    prs           \* SpecParse: the command line and what parseDice made of it

gvars == <<dice, pc, gens, fr, rollOf, max, userChoice, userY, result, firstPlayer,
           userDie, computerDie, computerRoll, userRoll, combines, out>>
vars == <<dice, pc, gens, fr, rollOf, max, userChoice, userY, result, firstPlayer,
          userDie, computerDie, computerRoll, userRoll, combines, out,
          entropy, rngTrace, h, q, sel, prs>>

----------------------------------------------------------------------------
(* Bounds and program constants *)

\* crypto.randomBytes(32)
KeyLen == 32
\* new FairRandomGenerator(1) in DetermineFirstPlayer
FirstPlayerRange == 1
\* parseDice: fewer than 3 dice are rejected
MinDice == 3

\* the secure random source starts in one of the states 0..MaxKeySeed
MaxKeySeed == 1
\* help or invalid inputs the user gives in one game
MaxRetries == 1
\* SpecFRG: rangeSize is drawn from -MaxNegRange..MaxRange
MaxRange == 3
MaxNegRange == 2
\* SpecFRG: computeResult's argument is drawn from -MaxArg..MaxArg
MaxArg == 5
\* SpecProb: dice of 1..MaxFaces faces with values 0..MaxFaceVal
MaxFaces == 3
MaxFaceVal == 2
\* SpecAvg, SpecSelect: three dice of 1..MaxPoolFaces faces with values
\* 0..MaxPoolFaceVal
MaxPoolFaces == 2
MaxPoolFaceVal == 1
\* SpecParse: one argument of the command line has 0..MaxArgLen characters
MaxArgLen == 3
\* SpecSelect: besides the pools of three dice, pools of up to MaxPoolSize
\* dice
MaxPoolSize == 4

----------------------------------------------------------------------------
(* Values *)

KeyFromSeed(s) == [i \in 1..KeyLen |-> (s * 97 + i * 7) % 256]

\* crypto.randomBytes(32): the key the random source returns in state e, and
\* the state it is left in; the source runs through MaxKeySeed + 3 keys, so
\* the three draws of a game differ
randomBytes(e) == KeyFromSeed(e)
EntropyAfter(e) == (e + 1) % (MaxKeySeed + 3)

HexDigits == <<"0", "1", "2", "3", "4", "5", "6", "7",
               "8", "9", "a", "b", "c", "d", "e", "f">>

HexVal(c) == (CHOOSE i \in 1..16 : HexDigits[i] = c) - 1

\* Buffer.toString("hex"): two lower-case digits per byte
ToHex(bytes) ==
    [i \in 1..(2 * Len(bytes)) |->
        IF i % 2 = 1 THEN HexDigits[(bytes[(i + 1) \div 2] \div 16) + 1]
                     ELSE HexDigits[(bytes[i \div 2] % 16) + 1]]

\* Buffer.from(s, "hex"): pairs of digits, a trailing single digit is dropped
FromHex(s) ==
    [i \in 1..(Len(s) \div 2) |-> HexVal(s[2 * i - 1]) * 16 + HexVal(s[2 * i])]

\* variant of WriteUInt32BE: the bytes in little-endian order (writeUInt32LE)
WriteUInt32LE(x) ==
    <<x % 256, (x \div 256) % 256, (x \div 65536) % 256, (x \div 16777216) % 256>>

\* buffer.writeUInt32BE(x) on a 4-byte buffer
WriteUInt32BE(x) ==
    <<(x \div 16777216) % 256, (x \div 65536) % 256, (x \div 256) % 256, x % 256>>

\* crypto.createHmac("sha3-256", key).update(buffer).digest("hex"): the digest
\* is a term over the key and the message; two digests are equal exactly when
\* algorithm, key and message are
HmacDigest(key, buffer) == [alg |-> "sha3-256", key |-> key, msg |-> buffer]

\* JavaScript's a % b for b # 0: the remainder has the sign of the dividend
JsRem(a, b) ==
    LET ab == IF b < 0 THEN -b ELSE b
    IN  IF a >= 0 THEN a % ab ELSE -((-a) % ab)

\* Number.prototype.toString and parseInt on the decimal strings of 0..9
DecStr == <<"0", "1", "2", "3", "4", "5", "6", "7", "8", "9">>
IntToString(i) == DecStr[i + 1]
ParseInt(s) == (CHOOSE i \in 1..Len(DecStr) : DecStr[i] = s) - 1

\* String.prototype.toUpperCase on the inputs of the model
ToUpperCase(s) == IF s = "x" THEN "X" ELSE s

\* what the user may type at a prompt
Inputs == {"0", "1", "2", "3", "9", "x", "X", "?", "", "abc"}

----------------------------------------------------------------------------
(* class Dice *)

getFaces(die) == die
getFaceCount(die) == Len(die)

\* faces[i] for a 0-based index i: undefined outside the array
FaceAt(die, i) ==
    IF i + 1 \in DOMAIN die THEN [def |-> TRUE, v |-> die[i + 1]]
                            ELSE [def |-> FALSE, v |-> 0]

----------------------------------------------------------------------------
(* class FairRandomGenerator *)

computeHMAC(key, x) == HmacDigest(key, WriteUInt32BE(x))

\* the value of a variable that holds no generator yet
NoObject == [rangeSize |-> -1, key |-> <<>>, x |-> -1,
             hmac |-> HmacDigest(<<>>, <<>>)]

\* crypto.randomInt(min, max) throws a RangeError unless min < max
RandomIntThrows(min, maxExcl) == ~(min < maxExcl)

\* variant of RandomInt: the upper bound taken as inclusive
RandomIntInclusive(min, maxExcl) == min..maxExcl

\* the values crypto.randomInt(min, max) may return: min <= n < max
RandomInt(min, maxExcl) == min..(maxExcl - 1)

\* new FairRandomGenerator(rangeSize), the random source returning key and x:
\* the key is drawn (line 52) before randomInt validates its bounds (line 53)
FairRandomGenerator(rangeSize, key, x) ==
    IF RandomIntThrows(0, rangeSize + 1)
    THEN [threw |-> TRUE, obj |-> NoObject, rng |-> <<"randomBytes">>]
    ELSE [threw |-> FALSE,
          obj |-> [rangeSize |-> rangeSize, key |-> key, x |-> x,
                   hmac |-> computeHMAC(key, x)],
          rng |-> <<"randomBytes", "randomInt">>]

\* the secrets the constructor may draw for rangeSize (one dummy when it throws)
Secrets(rangeSize) ==
    IF RandomIntThrows(0, rangeSize + 1) THEN {-1} ELSE RandomInt(0, rangeSize + 1)

getHMAC(g) == g.hmac

\* variant of computeResult: reduces modulo rangeSize, the formula of the
\* README (modulo 1 for rangeSize 0, where the README's formula has no value)
computeResultModRangeSize(g, y) ==
    JsRem(g.x + y, IF g.rangeSize = 0 THEN 1 ELSE g.rangeSize)

\* variant of computeResult: only y is reduced, x + y % (rangeSize + 1)
computeResultUnparenthesised(g, y) == g.x + JsRem(y, g.rangeSize + 1)

computeResult(g, y) == JsRem(g.x + y, g.rangeSize + 1)

getX(g) == g.x

getKey(g) == ToHex(g.key)

----------------------------------------------------------------------------
(* class ProbabilityCalculator: a probability is the pair <<wins, total>>,  *)
(* the operands of the single division of line 91                          *)

\* variant of InnerLoop: the last face of die2 is never compared
RECURSIVE InnerLoopSkipsLast(_, _, _)
InnerLoopSkipsLast(face1, faces2, j) ==
    IF j >= Len(faces2) THEN 0
    ELSE (IF face1 > faces2[j] THEN 1 ELSE 0)
         + InnerLoopSkipsLast(face1, faces2, j + 1)

\* variant of InnerLoop: a tie counts as a win (>= for >)
RECURSIVE InnerLoopCountsTies(_, _, _)
InnerLoopCountsTies(face1, faces2, j) ==
    IF j > Len(faces2) THEN 0
    ELSE (IF face1 >= faces2[j] THEN 1 ELSE 0)
         + InnerLoopCountsTies(face1, faces2, j + 1)

\* the inner loop of calculateWinProbability over die2's faces from j on
RECURSIVE InnerLoop(_, _, _)
InnerLoop(face1, faces2, j) ==
    IF j > Len(faces2) THEN 0
    ELSE (IF face1 > faces2[j] THEN 1 ELSE 0) + InnerLoop(face1, faces2, j + 1)

\* the outer loop over die1's faces from i on
RECURSIVE OuterLoop(_, _, _)
OuterLoop(faces1, faces2, i) ==
    IF i > Len(faces1) THEN 0
    ELSE InnerLoop(faces1[i], faces2, 1) + OuterLoop(faces1, faces2, i + 1)

\* variant of calculateWinProbability: the two dice change places
calculateWinProbabilitySwapped(die1, die2) ==
    <<OuterLoop(getFaces(die2), getFaces(die1), 1),
      getFaceCount(die1) * getFaceCount(die2)>>

calculateWinProbability(die1, die2) ==
    LET totalFaces == getFaceCount(die1) * getFaceCount(die2)
        die1Wins == OuterLoop(getFaces(die1), getFaces(die2), 1)
    IN  <<die1Wins, totalFaces>>

\* p > q for two probabilities with positive denominators
ProbGreater(p, r) == p[1] * r[2] > r[1] * p[2]

\* p + q and p / n on exact fractions
ProbAdd(p, r) == <<p[1] * r[2] + r[1] * p[2], p[2] * r[2]>>
ProbDiv(p, n) == <<p[1], p[2] * n>>

\* the loop of averageWinProbability over the pool (positions in ds) from k on;
\* die === eachDie compares positions, the identity of a die
RECURSIVE AverageLoop(_, _, _, _)
AverageLoop(ds, d, pool, k) ==
    IF k > Len(pool) THEN <<0, 1>>
    ELSE IF d = pool[k] THEN AverageLoop(ds, d, pool, k + 1)
    ELSE ProbAdd(calculateWinProbability(ds[d], ds[pool[k]]),
                 AverageLoop(ds, d, pool, k + 1))

averageWinProbability(ds, d, pool) ==
    ProbDiv(AverageLoop(ds, d, pool, 1), Len(pool) - 1)

----------------------------------------------------------------------------
(* class Game: helpers.  A die of the game is named by its position in     *)
(* dice (1-based), which is its identity: two dice with equal faces are    *)
(* different dice.                                                         *)

\* the dice pools the game is started with (DiceParser accepts at least three
\* dice, each with at least one face)
GamePools ==
    { << <<2>>, <<2>>, <<1, 2>> >>,
      << <<1>>, <<1>>, <<2>>, <<0, 3>> >> }

Includes(seq, e) == \E i \in 1..Len(seq) : seq[i] = e

\* variant of AvailableDice: a die is excluded when its faces equal those of
\* an excluded die
AvailableDiceByValue(ds, exclude) ==
    SelectSeq([i \in 1..Len(ds) |-> i],
              LAMBDA d : ~\E k \in 1..Len(exclude) : ds[exclude[k]] = ds[d])

\* this.dice.filter((die) => !exclude.includes(die))
AvailableDice(ds, exclude) ==
    SelectSeq([i \in 1..Len(ds) |-> i], LAMBDA d : ~Includes(exclude, d))

\* availableDice.map((d, i) => i.toString())
DieOptions(available) == [i \in 1..Len(available) |-> IntToString(i - 1)]

\* Array.from({ length: max + 1 }, (_, i) => i.toString())
RollOptions(m) == [i \in 1..(m + 1) |-> IntToString(i - 1)]

\* for (const die of availableDice.slice(1)) with avg > bestAvg, from k on
RECURSIVE BestByAverage(_, _, _, _)
BestByAverage(ds, available, k, bestDie) ==
    IF k > Len(available) THEN bestDie
    ELSE IF ProbGreater(averageWinProbability(ds, available[k], available),
                        averageWinProbability(ds, bestDie, available))
         THEN BestByAverage(ds, available, k + 1, available[k])
         ELSE BestByAverage(ds, available, k + 1, bestDie)

\* for (const die of availableDice.slice(1)) with winProb > bestWinProb
\* variant of BestAgainst: a die that only equals the best so far replaces it
RECURSIVE BestAgainstLastOfTies(_, _, _, _, _)
BestAgainstLastOfTies(ds, available, k, bestDie, other) ==
    IF k > Len(available) THEN bestDie
    ELSE IF ~ProbGreater(calculateWinProbability(ds[bestDie], ds[other]),
                         calculateWinProbability(ds[available[k]], ds[other]))
         THEN BestAgainstLastOfTies(ds, available, k + 1, available[k], other)
         ELSE BestAgainstLastOfTies(ds, available, k + 1, bestDie, other)

RECURSIVE BestAgainst(_, _, _, _, _)
BestAgainst(ds, available, k, bestDie, other) ==
    IF k > Len(available) THEN bestDie
    ELSE IF ProbGreater(calculateWinProbability(ds[available[k]], ds[other]),
                        calculateWinProbability(ds[bestDie], ds[other]))
         THEN BestAgainst(ds, available, k + 1, available[k], other)
         ELSE BestAgainst(ds, available, k + 1, bestDie, other)

\* selectComputerDie(exclude): 0 stands for the thrown Error of line 269
selectComputerDie(ds, exclude) ==
    LET availableDice == AvailableDice(ds, exclude)
    IN  IF Len(availableDice) = 0 THEN 0
        ELSE IF Len(exclude) = 0
             THEN BestByAverage(ds, availableDice, 2, availableDice[1])
             ELSE BestAgainst(ds, availableDice, 2, availableDice[1], exclude[1])

\* help and invalid inputs answered so far
Retries(o) == Cardinality({i \in 1..Len(o) : o[i].ev \in {"help", "invalid"}})

\* one pass of a do-while prompt loop: the question is shown, the input is read
\* and upper-cased, and the loop exits the process, shows the help table,
\* reports an invalid option, or breaks with an accepted option
PromptOutcome(inp, options) ==
    LET choice == ToUpperCase(inp)
    IN  IF choice = "X" THEN "exit"
        ELSE IF choice = "?" THEN "help"
        ELSE IF ~Includes(options, choice) THEN "invalid"
        ELSE "break"

----------------------------------------------------------------------------
(* The harness variables at rest *)

HIdle == [obj |-> NoObject, call |-> "none", arg |-> 0,
          ret |-> [kind |-> "none", v |-> 0]]
QIdle == [a |-> <<>>, b |-> <<>>, called |-> FALSE,
          ab |-> <<0, 0>>, ba |-> <<0, 0>>]
SelIdle == [ds |-> <<>>, d |-> 0, pool |-> <<>>, call |-> "none",
            ret |-> [kind |-> "none", v |-> <<0, 1>>]]
PrsIdle == [args |-> <<>>, called |-> FALSE,
            ret |-> [kind |-> "none", dice |-> <<>>]]

GameOff ==
    /\ dice = <<>> /\ pc = "off" /\ gens = <<>> /\ fr = 0 /\ rollOf = "none"
    /\ max = -1 /\ userChoice = "" /\ userY = -1 /\ result = -1
    /\ firstPlayer = "null" /\ userDie = 0 /\ computerDie = 0
    /\ computerRoll = -1 /\ userRoll = -1 /\ combines = <<>> /\ out = <<>>

----------------------------------------------------------------------------
(* class Game *)

\* new Game(dice) for a pool DiceParser.parseDice returned
Init ==
    /\ dice \in GamePools
    /\ pc = "start"
    /\ gens = <<>> /\ fr = 0 /\ combines = <<>>
    /\ rollOf = "none" /\ max = -1
    /\ userChoice = "" /\ userY = -1 /\ result = -1
    /\ firstPlayer = "null" /\ userDie = 0 /\ computerDie = 0
    /\ computerRoll = -1 /\ userRoll = -1
    /\ out = <<>>
    /\ entropy \in 0..MaxKeySeed
    /\ rngTrace = <<>>
    /\ h = HIdle /\ q = QIdle /\ sel = SelIdle /\ prs = PrsIdle

\* const fairRandom = new FairRandomGenerator(rangeSize); a throw is caught in
\* start(), which ends the process
NewFairRandom(rangeSize, next) ==
    \E x \in Secrets(rangeSize) :
        LET r == FairRandomGenerator(rangeSize, randomBytes(entropy), x)
        IN  /\ rngTrace' = r.rng
            /\ entropy' = EntropyAfter(entropy)
            /\ IF r.threw
               THEN /\ pc' = "error"
                    /\ UNCHANGED <<gens, fr, combines>>
               ELSE /\ gens' = Append(gens, r.obj)
                    /\ combines' = Append(combines, <<>>)
                    /\ fr' = Len(gens) + 1
                    /\ pc' = next

\* lines 161-162
DFP_Create ==
    /\ pc = "start"
    /\ NewFairRandom(FirstPlayerRange, "dfp_hmac")
    /\ out' = Append(out, [ev |-> "finding"])
    /\ UNCHANGED <<dice, rollOf, max, userChoice, userY, result, firstPlayer,
                   userDie, computerDie, computerRoll, userRoll, h, q, sel, prs>>

\* lines 163-166
DFP_ShowHMAC ==
    /\ pc = "dfp_hmac"
    /\ out' = Append(out, [ev |-> "hmac", hmac |-> getHMAC(gens[fr])])
    /\ pc' = "dfp_prompt"
    /\ UNCHANGED <<dice, gens, fr, rollOf, max, userChoice, userY, result,
                   firstPlayer, userDie, computerDie, computerRoll, userRoll,
                   combines,
                   entropy, rngTrace, h, q, sel, prs>>

\* Number.prototype.toFixed(4) of a probability: the nearest count of
\* ten-thousandths, the larger one of two equally near
ToFixed4(p) == (20000 * p[1] + p[2]) \div (2 * p[2])

\* HelpTableDisplay.tableDisplay(dice): the header of dice and one row per die
\* with the formatted probability against every die, the diagonal cell marked
tableDisplay(ds) ==
    [head |-> ds,
     rows |-> [i \in 1..Len(ds) |->
                 [j \in 1..Len(ds) |->
                    [diagonal |-> i = j,
                     text |-> ToFixed4(calculateWinProbability(ds[i], ds[j]))]]]]

\* variant of PromptPass: the option is not checked against the options, any
\* decimal digit breaks the loop
PromptPassAnyDigit(inp, kind, options, listed, bye, hint, next) ==
    LET o == PromptOutcome(inp, DecStr)
        asked == [ev |-> "prompt", kind |-> kind, options |-> options,
                  listed |-> listed]
    IN  /\ userChoice' = ToUpperCase(inp)
        /\ CASE o = "exit" ->
                   /\ pc' = "exit"
                   /\ out' = out \o <<asked>> \o bye
             [] o = "help" ->
                   /\ Retries(out) < MaxRetries
                   /\ out' = out \o <<asked, [ev |-> "help",
                                              table |-> tableDisplay(dice)]>>
                                 \o hint
                   /\ UNCHANGED pc
             [] o = "invalid" ->
                   /\ Retries(out) < MaxRetries
                   /\ out' = out \o <<asked, [ev |-> "invalid", kind |-> kind]>>
                   /\ UNCHANGED pc
             [] o = "break" ->
                   /\ pc' = next
                   /\ out' = Append(out, asked)

\* what one pass of a prompt loop does: the question with its listed lines is
\* shown, the input is read into userChoice (lines 170-172), and the loop
\* exits, shows the help table, reports an invalid option or breaks; kind
\* names the prompt, bye is the farewell X prints, hint the line printed after
\* the help table
PromptPass(inp, kind, options, listed, bye, hint, next) ==
    LET o == PromptOutcome(inp, options)
        asked == [ev |-> "prompt", kind |-> kind, options |-> options,
                  listed |-> listed]
    IN  /\ userChoice' = ToUpperCase(inp)
        /\ CASE o = "exit" ->
                   /\ pc' = "exit"
                   /\ out' = out \o <<asked>> \o bye
             [] o = "help" ->
                   /\ Retries(out) < MaxRetries
                   /\ out' = out \o <<asked, [ev |-> "help",
                                              table |-> tableDisplay(dice)]>>
                                 \o hint
                   /\ UNCHANGED pc
             [] o = "invalid" ->
                   /\ Retries(out) < MaxRetries
                   /\ out' = out \o <<asked, [ev |-> "invalid", kind |-> kind]>>
                   /\ UNCHANGED pc
             [] o = "break" ->
                   /\ pc' = next
                   /\ out' = Append(out, asked)

\* lines 168-192
DFP_Prompt ==
    /\ pc = "dfp_prompt"
    /\ \E inp \in Inputs :
          PromptPass(inp, "guess", <<"0", "1">>, <<"0", "1">>,
                     <<[ev |-> "bye"]>>, <<[ev |-> "hint"]>>, "dfp_compute")
    /\ UNCHANGED <<dice, gens, fr, rollOf, max, userY, result, firstPlayer,
                   userDie, computerDie, computerRoll, userRoll, combines,
                   entropy, rngTrace, h, q, sel, prs>>

\* lines 194-196
DFP_Compute ==
    /\ pc = "dfp_compute"
    /\ userY' = ParseInt(userChoice)
    /\ result' = computeResult(gens[fr], userY')
    /\ combines' = [combines EXCEPT ![fr] = Append(@, userY')]
    /\ pc' = "dfp_reveal"
    /\ UNCHANGED <<dice, gens, fr, rollOf, max, userChoice, firstPlayer,
                   userDie, computerDie, computerRoll, userRoll, out,
                   entropy, rngTrace, h, q, sel, prs>>

\* lines 197-199
DFP_Reveal ==
    /\ pc = "dfp_reveal"
    /\ out' = Append(out, [ev |-> "reveal", x |-> getX(gens[fr]),
                           key |-> getKey(gens[fr])])
    /\ pc' = "dfp_decide"
    /\ UNCHANGED <<dice, gens, fr, rollOf, max, userChoice, userY, result,
                   firstPlayer, userDie, computerDie, computerRoll, userRoll,
                   combines,
                   entropy, rngTrace, h, q, sel, prs>>

\* variant of DFP_Decide: a correct guess gives the computer the first move
DFP_DecideInverted ==
    /\ pc = "dfp_decide"
    /\ LET computerChoice == getX(gens[fr])
           userCorrect == userY = computerChoice
           first == IF userCorrect THEN "computer" ELSE "user"
       IN  /\ firstPlayer' = first
           /\ out' = out \o <<[ev |-> "result", y |-> userY, x |-> computerChoice,
                               result |-> result, mod |-> 2],
                              [ev |-> "first", who |-> first]>>
    /\ fr' = 0
    /\ pc' = "select"
    /\ UNCHANGED <<dice, gens, rollOf, max, userChoice, userY, result,
                   userDie, computerDie, computerRoll, userRoll, combines,
                   entropy, rngTrace, h, q, sel, prs>>

\* lines 200-211, and the assignment of line 150
DFP_Decide ==
    /\ pc = "dfp_decide"
    /\ LET computerChoice == getX(gens[fr])
           userCorrect == userY = computerChoice
           first == IF userCorrect THEN "user" ELSE "computer"
       IN  /\ firstPlayer' = first
           /\ out' = out \o <<[ev |-> "result", y |-> userY, x |-> computerChoice,
                               result |-> result, mod |-> 2],
                              [ev |-> "first", who |-> first]>>
    /\ fr' = 0
    /\ pc' = "select"
    /\ UNCHANGED <<dice, gens, rollOf, max, userChoice, userY, result,
                   userDie, computerDie, computerRoll, userRoll, combines,
                   entropy, rngTrace, h, q, sel, prs>>

\* selectDice up to its prompt: lines 215 and 223
SelectDice_Begin ==
    /\ pc = "select"
    /\ IF firstPlayer = "user"
       THEN /\ pc' = "sel_prompt"
            /\ UNCHANGED computerDie
       ELSE LET chosen == selectComputerDie(dice, <<>>)
            IN  /\ computerDie' = chosen
                /\ pc' = IF chosen = 0 THEN "error" ELSE "sel_prompt"
    /\ UNCHANGED <<dice, gens, fr, rollOf, max, userChoice, userY, result,
                   firstPlayer, userDie, computerRoll, userRoll, combines,
                   out,
                   entropy, rngTrace, h, q, sel, prs>>

\* the exclude argument of promptUserDieSelection: lines 216 and 231
UserExclude == IF firstPlayer = "user" THEN <<>> ELSE <<computerDie>>

\* the dice the prompt message of selectDice lists, in the order of their
\* indices 0, 1, ...: lines 218 and 226-229
DieListing ==
    IF firstPlayer = "user"
    THEN [i \in 1..Len(dice) |-> i]
    ELSE SelectSeq([i \in 1..Len(dice) |-> i], LAMBDA d : d # computerDie)

\* promptUserDieSelection, one pass of its loop: lines 238-261
PromptUserDieSelection ==
    /\ pc = "sel_prompt"
    /\ \E inp \in Inputs :
          PromptPass(inp, "die", DieOptions(AvailableDice(dice, UserExclude)),
                     DieListing, <<>>, <<>>, "sel_return")
    /\ UNCHANGED <<dice, gens, fr, rollOf, max, userY, result, firstPlayer,
                   userDie, computerDie, computerRoll, userRoll, combines,
                   entropy, rngTrace, h, q, sel, prs>>

\* line 262, then the rest of selectDice: lines 221 and 234-235
SelectDice_End ==
    /\ pc = "sel_return"
    /\ LET availableDice == AvailableDice(dice, UserExclude)
           user == availableDice[ParseInt(userChoice) + 1]
           computer == IF firstPlayer = "user"
                       THEN selectComputerDie(dice, <<user>>)
                       ELSE computerDie
       IN  /\ userDie' = user
           /\ computerDie' = computer
           /\ IF computer = 0
              THEN /\ pc' = "error"
                   /\ UNCHANGED out
              ELSE /\ pc' = "throws"
                   /\ out' = Append(out, [ev |-> "chose", user |-> user,
                                          computer |-> computer])
    /\ UNCHANGED <<dice, gens, fr, rollOf, max, userChoice, userY, result,
                   firstPlayer, computerRoll, userRoll, combines,
                   entropy, rngTrace, h, q, sel, prs>>

\* variant of PerformThrows_Computer: the roll is asked for the face count
PerformThrows_ComputerFullCount ==
    /\ pc = "throws"
    /\ rollOf' = "computer"
    /\ max' = getFaceCount(dice[computerDie])
    /\ pc' = "roll_create"
    /\ out' = Append(out, [ev |-> "turn", who |-> "computer"])
    /\ UNCHANGED <<dice, gens, fr, userChoice, userY, result, firstPlayer,
                   userDie, computerDie, computerRoll, userRoll, combines,
                   entropy, rngTrace, h, q, sel, prs>>

\* variant of PerformThrows_User: the game goes on to declareWinner after the
\* computer's roll, without a roll for the user
PerformThrows_UserSkipped ==
    /\ pc = "roll_return" /\ rollOf = "computer"
    /\ computerRoll' = result
    /\ out' = Append(out, [ev |-> "throw", who |-> "computer",
                           value |-> FaceAt(getFaces(dice[computerDie]), result)])
    /\ rollOf' = "none"
    /\ max' = -1
    /\ pc' = "declare"
    /\ UNCHANGED <<dice, gens, fr, userChoice, userY, result, firstPlayer,
                   userDie, computerDie, userRoll, combines,
                   entropy, rngTrace, h, q, sel, prs>>

\* performThrows up to the computer's roll: lines 313-316
PerformThrows_Computer ==
    /\ pc = "throws"
    /\ rollOf' = "computer"
    /\ max' = getFaceCount(dice[computerDie]) - 1
    /\ pc' = "roll_create"
    /\ out' = Append(out, [ev |-> "turn", who |-> "computer"])
    /\ UNCHANGED <<dice, gens, fr, userChoice, userY, result, firstPlayer,
                   userDie, computerDie, computerRoll, userRoll, combines,
                   entropy, rngTrace, h, q, sel, prs>>

\* variant of Roll_Create: the throw reuses the generator of the round before
Roll_CreateReuses ==
    /\ pc = "roll_create"
    /\ fr' = Len(gens)
    /\ pc' = "roll_hmac"
    /\ UNCHANGED <<dice, gens, combines, rollOf, max, userChoice, userY, result,
                   firstPlayer, userDie, computerDie, computerRoll, userRoll,
                   out, entropy, rngTrace, h, q, sel, prs>>

\* performFairRoll: line 333
Roll_Create ==
    /\ pc = "roll_create"
    /\ NewFairRandom(max, "roll_hmac")
    /\ UNCHANGED <<dice, rollOf, max, userChoice, userY, result, firstPlayer,
                   userDie, computerDie, computerRoll, userRoll, out, h, q, sel, prs>>

\* variant of Roll_ShowHMAC: the secret and the key are printed with the digest
Roll_ShowHMACRevealsEarly ==
    /\ pc = "roll_hmac"
    /\ out' = out \o <<[ev |-> "hmac", hmac |-> getHMAC(gens[fr])],
                        [ev |-> "reveal", x |-> getX(gens[fr]),
                         key |-> getKey(gens[fr])]>>
    /\ pc' = "roll_prompt"
    /\ UNCHANGED <<dice, gens, fr, rollOf, max, userChoice, userY, result,
                   firstPlayer, userDie, computerDie, computerRoll, userRoll,
                   combines, entropy, rngTrace, h, q, sel, prs>>

\* lines 335-339
Roll_ShowHMAC ==
    /\ pc = "roll_hmac"
    /\ out' = Append(out, [ev |-> "hmac", hmac |-> getHMAC(gens[fr])])
    /\ pc' = "roll_prompt"
    /\ UNCHANGED <<dice, gens, fr, rollOf, max, userChoice, userY, result,
                   firstPlayer, userDie, computerDie, computerRoll, userRoll,
                   combines,
                   entropy, rngTrace, h, q, sel, prs>>

\* lines 341-365
Roll_Prompt ==
    /\ pc = "roll_prompt"
    /\ \E inp \in Inputs :
          PromptPass(inp, "throw", RollOptions(max), RollOptions(max),
                     <<[ev |-> "bye"]>>, <<>>, "roll_compute")
    /\ UNCHANGED <<dice, gens, fr, rollOf, max, userY, result, firstPlayer,
                   userDie, computerDie, computerRoll, userRoll, combines,
                   entropy, rngTrace, h, q, sel, prs>>

\* lines 367-368
Roll_Compute ==
    /\ pc = "roll_compute"
    /\ userY' = ParseInt(userChoice)
    /\ result' = computeResult(gens[fr], userY')
    /\ combines' = [combines EXCEPT ![fr] = Append(@, userY')]
    /\ pc' = "roll_reveal"
    /\ UNCHANGED <<dice, gens, fr, rollOf, max, userChoice, firstPlayer,
                   userDie, computerDie, computerRoll, userRoll, out,
                   entropy, rngTrace, h, q, sel, prs>>

\* lines 370-372
Roll_Reveal ==
    /\ pc = "roll_reveal"
    /\ out' = Append(out, [ev |-> "reveal", x |-> getX(gens[fr]),
                           key |-> getKey(gens[fr])])
    /\ pc' = "roll_result"
    /\ UNCHANGED <<dice, gens, fr, rollOf, max, userChoice, userY, result,
                   firstPlayer, userDie, computerDie, computerRoll, userRoll,
                   combines,
                   entropy, rngTrace, h, q, sel, prs>>

\* lines 373-378
Roll_Return ==
    /\ pc = "roll_result"
    /\ out' = Append(out, [ev |-> "result", y |-> userY, x |-> getX(gens[fr]),
                           result |-> result, mod |-> max + 1])
    /\ fr' = 0
    /\ pc' = "roll_return"
    /\ UNCHANGED <<dice, gens, rollOf, max, userChoice, userY, result,
                   firstPlayer, userDie, computerDie, computerRoll, userRoll,
                   combines,
                   entropy, rngTrace, h, q, sel, prs>>

\* performThrows between the rolls: lines 314 and 318-323
PerformThrows_User ==
    /\ pc = "roll_return" /\ rollOf = "computer"
    /\ computerRoll' = result
    /\ out' = out \o <<[ev |-> "throw", who |-> "computer",
                        value |-> FaceAt(getFaces(dice[computerDie]), result)],
                       [ev |-> "turn", who |-> "user"]>>
    /\ rollOf' = "user"
    /\ max' = getFaceCount(dice[userDie]) - 1
    /\ pc' = "roll_create"
    /\ UNCHANGED <<dice, gens, fr, userChoice, userY, result, firstPlayer,
                   userDie, computerDie, userRoll, combines,
                   entropy, rngTrace, h, q, sel, prs>>

\* performThrows after the user's roll: lines 323-329
PerformThrows_Return ==
    /\ pc = "roll_return" /\ rollOf = "user"
    /\ userRoll' = result
    /\ out' = Append(out, [ev |-> "throw", who |-> "user",
                           value |-> FaceAt(getFaces(dice[userDie]), result)])
    /\ rollOf' = "none"
    /\ max' = -1
    /\ pc' = "declare"
    /\ UNCHANGED <<dice, gens, fr, userChoice, userY, result, firstPlayer,
                   userDie, computerDie, computerRoll, combines,
                   entropy, rngTrace, h, q, sel, prs>>

\* a > b on two throw values: false when either is undefined
ValueGreater(a, b) == a.def /\ b.def /\ a.v > b.v

\* declareWinner on the values of lines 327-328, and the end of start()
DeclareWinner ==
    /\ pc = "declare"
    /\ LET userValue == FaceAt(getFaces(dice[userDie]), userRoll)
           computerValue == FaceAt(getFaces(dice[computerDie]), computerRoll)
       IN  out' = Append(out,
                [ev |-> "winner",
                 who |-> IF ValueGreater(userValue, computerValue) THEN "user"
                         ELSE IF ValueGreater(computerValue, userValue)
                              THEN "computer" ELSE "draw",
                 user |-> userValue, computer |-> computerValue])
    /\ pc' = "done"
    /\ UNCHANGED <<dice, gens, fr, rollOf, max, userChoice, userY, result,
                   firstPlayer, userDie, computerDie, computerRoll, userRoll,
                   combines,
                   entropy, rngTrace, h, q, sel, prs>>

Next ==
    \/ DFP_Create \/ DFP_ShowHMAC \/ DFP_Prompt \/ DFP_Compute
    \/ DFP_Reveal \/ DFP_Decide
    \/ SelectDice_Begin \/ PromptUserDieSelection \/ SelectDice_End
    \/ PerformThrows_Computer
    \/ Roll_Create \/ Roll_ShowHMAC \/ Roll_Prompt \/ Roll_Compute
    \/ Roll_Reveal \/ Roll_Return
    \/ PerformThrows_User \/ PerformThrows_Return
    \/ DeclareWinner

Spec == Init /\ [][Next]_vars

\* the steps the program takes by itself: Node runs start() to its end
ProgramStep ==
    \/ DFP_Create \/ DFP_ShowHMAC \/ DFP_Compute \/ DFP_Reveal \/ DFP_Decide
    \/ SelectDice_Begin \/ SelectDice_End
    \/ PerformThrows_Computer
    \/ Roll_Create \/ Roll_ShowHMAC \/ Roll_Compute \/ Roll_Reveal
    \/ Roll_Return
    \/ PerformThrows_User \/ PerformThrows_Return
    \/ DeclareWinner

\* a pass of a prompt loop that leaves the loop: readlineSync.question
\* returned an option of the prompt, or X
PromptLeft ==
    (DFP_Prompt \/ PromptUserDieSelection \/ Roll_Prompt) /\ pc' # pc

\* the game of a user who answers every prompt, in the end with an option
\* of the prompt or with X
SpecFair == Spec /\ WF_vars(ProgramStep) /\ WF_vars(PromptLeft)

----------------------------------------------------------------------------
(* SpecFRG: the FairRandomGenerator class called directly *)

InitFRG ==
    /\ GameOff /\ entropy \in 0..MaxKeySeed /\ rngTrace = <<>>
    /\ h = HIdle /\ q = QIdle /\ sel = SelIdle /\ prs = PrsIdle

\* g = new FairRandomGenerator(rangeSize): a throw leaves g as it was
FRG_New ==
    /\ \E rangeSize \in (-MaxNegRange)..MaxRange :
       \E x \in Secrets(rangeSize) :
          LET r == FairRandomGenerator(rangeSize, randomBytes(entropy), x)
          IN  /\ rngTrace' = r.rng
              /\ entropy' = EntropyAfter(entropy)
              /\ h' = [obj |-> IF r.threw THEN h.obj ELSE r.obj,
                       call |-> "new", arg |-> rangeSize,
                       ret |-> IF r.threw THEN [kind |-> "error", v |-> 0]
                                          ELSE [kind |-> "object", v |-> 0]]
    /\ UNCHANGED <<gvars, q, sel, prs>>

\* g.computeResult(y)
FRG_ComputeResult ==
    /\ h.obj # NoObject
    /\ \E y \in (-MaxArg)..MaxArg :
          h' = [h EXCEPT !.call = "computeResult", !.arg = y,
                         !.ret = [kind |-> "value", v |-> computeResult(h.obj, y)]]
    /\ UNCHANGED <<gvars, entropy, rngTrace, q, sel, prs>>

NextFRG == FRG_New \/ FRG_ComputeResult

SpecFRG == InitFRG /\ [][NextFRG]_vars

----------------------------------------------------------------------------
(* SpecProb: calculateWinProbability on pairs of dice *)

RECURSIVE SeqsOfLen(_, _)
SeqsOfLen(S, n) ==
    IF n = 0 THEN {<<>>}
    ELSE {Append(t, e) : t \in SeqsOfLen(S, n - 1), e \in S}

\* the three dice of the usage example (line 404), faces in ascending order
EfronA == <<2, 2, 4, 4, 9, 9>>
EfronB == <<1, 1, 6, 6, 8, 8>>
EfronC == <<3, 3, 5, 5, 7, 7>>

\* the dice of 1..MaxFaces faces over the values 0..MaxFaceVal, and the three
\* dice of the example
DieSet ==
    UNION {SeqsOfLen(0..MaxFaceVal, n) : n \in 1..MaxFaces}
       \cup {EfronA, EfronB, EfronC}

\* a pair of dice, not yet compared
InitProb ==
    /\ GameOff /\ entropy = 0 /\ rngTrace = <<>> /\ h = HIdle
    /\ sel = SelIdle /\ prs = PrsIdle
    /\ \E a \in DieSet, b \in DieSet : q = [QIdle EXCEPT !.a = a, !.b = b]

\* calculateWinProbability(a, b) and calculateWinProbability(b, a)
Prob_Calculate ==
    /\ ~q.called
    /\ q' = [q EXCEPT !.called = TRUE,
                      !.ab = calculateWinProbability(q.a, q.b),
                      !.ba = calculateWinProbability(q.b, q.a)]
    /\ UNCHANGED <<gvars, entropy, rngTrace, h, sel, prs>>

NextProb == Prob_Calculate

SpecProb == InitProb /\ [][NextProb]_vars

----------------------------------------------------------------------------
(* SpecAvg: averageWinProbability on three Dice objects, a die of them and *)
(* a pool holding any of them                                              *)

\* the dice of 1..MaxPoolFaces faces over the values 0..MaxPoolFaceVal
PoolDieSet == UNION {SeqsOfLen(0..MaxPoolFaceVal, n) : n \in 1..MaxPoolFaces}

\* three Dice objects, named by their positions 1..3
DiceTriples == SeqsOfLen(PoolDieSet, MinDice)

\* the arrays that hold some of the three dice, in their order
SubPools ==
    {SelectSeq(<<1, 2, 3>>, LAMBDA k : k \in S) : S \in SUBSET {1, 2, 3}}

InitAvg ==
    /\ GameOff /\ entropy = 0 /\ rngTrace = <<>> /\ h = HIdle /\ q = QIdle
    /\ prs = PrsIdle
    /\ \E ds \in DiceTriples, d \in 1..MinDice, pool \in SubPools :
          sel = [SelIdle EXCEPT !.ds = ds, !.d = d, !.pool = pool]

\* ProbabilityCalculator.averageWinProbability(die, dice): no statement of it
\* throws, a division by zero included
Avg_Call ==
    /\ sel.call = "none"
    /\ sel' = [sel EXCEPT
                 !.call = "averageWinProbability",
                 !.ret = [kind |-> "value",
                          v |-> averageWinProbability(sel.ds, sel.d, sel.pool)]]
    /\ UNCHANGED <<gvars, entropy, rngTrace, h, q, prs>>

NextAvg == Avg_Call

SpecAvg == InitAvg /\ [][NextAvg]_vars

----------------------------------------------------------------------------
(* SpecSelect: selectComputerDie after the user has chosen a die *)

\* the dice of the larger pools
SmallDice == {<<0>>, <<1>>, <<0, 1>>}

\* this.dice: three dice of any faces, or MinDice..MaxPoolSize small dice
SelectPools ==
    DiceTriples \cup UNION {SeqsOfLen(SmallDice, n) : n \in MinDice..MaxPoolSize}

\* sel.d is this.userDie, the die promptUserDieSelection returned
InitSelect ==
    /\ GameOff /\ entropy = 0 /\ rngTrace = <<>> /\ h = HIdle /\ q = QIdle
    /\ prs = PrsIdle
    /\ \E ds \in SelectPools :
          \E d \in 1..Len(ds) :
             sel = [SelIdle EXCEPT !.ds = ds, !.d = d,
                                   !.pool = [i \in 1..Len(ds) |-> i]]

\* this.computerDie = this.selectComputerDie([this.userDie]): line 221
Select_Call ==
    /\ sel.call = "none"
    /\ sel' = [sel EXCEPT
                 !.call = "selectComputerDie",
                 !.ret = [kind |-> "die",
                          v |-> <<selectComputerDie(sel.ds, <<sel.d>>)>>]]
    /\ UNCHANGED <<gvars, entropy, rngTrace, h, q, prs>>

NextSelect == Select_Call

SpecSelect == InitSelect /\ [][NextSelect]_vars

----------------------------------------------------------------------------
(* class DiceParser, and SpecParse: parseDice on command lines.  A string   *)
(* is the sequence of its characters.                                      *)

Digits == <<"0", "1", "2", "3", "4", "5", "6", "7", "8", "9">>
IsDigit(c) == \E i \in 1..Len(Digits) : Digits[i] = c
DigitVal(c) == (CHOOSE i \in 1..Len(Digits) : Digits[i] = c) - 1

\* arg.split(","): the pieces between the commas, empty pieces included
RECURSIVE Split(_, _)
Split(str, piece) ==
    IF str = <<>> THEN <<piece>>
    ELSE IF Head(str) = "," THEN <<piece>> \o Split(Tail(str), <<>>)
    ELSE Split(Tail(str), Append(piece, Head(str)))

\* String.prototype.trim: the white space at both ends is dropped
RECURSIVE TrimLeft(_)
TrimLeft(str) ==
    IF str # <<>> /\ Head(str) = " " THEN TrimLeft(Tail(str)) ELSE str
RECURSIVE TrimRight(_)
TrimRight(str) ==
    IF str # <<>> /\ str[Len(str)] = " "
    THEN TrimRight(SubSeq(str, 1, Len(str) - 1)) ELSE str
Trim(str) == TrimRight(TrimLeft(str))

\* the longest prefix of decimal digits of a string
RECURSIVE DigitPrefix(_)
DigitPrefix(str) ==
    IF str # <<>> /\ IsDigit(Head(str))
    THEN <<Head(str)>> \o DigitPrefix(Tail(str)) ELSE <<>>

RECURSIVE DigitsValue(_, _)
DigitsValue(ds, acc) ==
    IF ds = <<>> THEN acc ELSE DigitsValue(Tail(ds), 10 * acc + DigitVal(Head(ds)))

\* parseInt(str) on strings without a sign or a radix prefix: the value of
\* the leading digits, whatever follows them; NaN when there is none
parseInt(str) ==
    LET ds == DigitPrefix(TrimLeft(str))
    IN  IF ds = <<>> THEN [nan |-> TRUE, v |-> 0]
        ELSE [nan |-> FALSE, v |-> DigitsValue(ds, 0)]

\* the faces of one argument: lines 33-38
FacesOf(arg) ==
    LET facesInString == Split(arg, <<>>)
    IN  [i \in 1..Len(facesInString) |-> parseInt(Trim(facesInString[i]))]

\* DiceParser.parseDice(args): the Error of line 26, of line 36 or of line 41,
\* or the array of Dice
parseDice(args) ==
    IF Len(args) < MinDice THEN [kind |-> "error", dice |-> <<>>]
    ELSE IF \E k \in 1..Len(args) :
               \E i \in 1..Len(FacesOf(args[k])) : FacesOf(args[k])[i].nan
         THEN [kind |-> "error", dice |-> <<>>]
    ELSE IF \E k \in 1..Len(args) : Len(FacesOf(args[k])) < 1
         THEN [kind |-> "error", dice |-> <<>>]
    ELSE [kind |-> "dice",
          dice |-> [k \in 1..Len(args) |->
                      [i \in 1..Len(FacesOf(args[k])) |-> FacesOf(args[k])[i].v]]]

\* the characters of the arguments, and the arguments of 0..MaxArgLen of them
ArgChars == {"1", "3", "5", "a", ".", ",", " "}
ArgStrings == UNION {SeqsOfLen(ArgChars, n) : n \in 0..MaxArgLen}

\* three well-formed arguments
GoodArgs == << <<"1", ",", "5">>, <<"3">>, <<"5", ",", "1">> >>

\* the command lines: the three good arguments with one of them replaced by
\* any argument, and the command lines of fewer than three arguments
ArgLists ==
    {[GoodArgs EXCEPT ![k] = str] : k \in 1..MinDice, str \in ArgStrings}
       \cup {SubSeq(GoodArgs, 1, n) : n \in 0..(MinDice - 1)}

InitParse ==
    /\ GameOff /\ entropy = 0 /\ rngTrace = <<>> /\ h = HIdle /\ q = QIdle
    /\ sel = SelIdle
    /\ \E args \in ArgLists : prs = [PrsIdle EXCEPT !.args = args]

\* const dice = DiceParser.parseDice(args): line 398
Parse_Call ==
    /\ ~prs.called
    /\ prs' = [prs EXCEPT !.called = TRUE, !.ret = parseDice(prs.args)]
    /\ UNCHANGED <<gvars, entropy, rngTrace, h, q, sel>>

NextParse == Parse_Call

SpecParse == InitParse /\ [][NextParse]_vars

----------------------------------------------------------------------------
(* Properties of the commitment protocol in the game (Spec) *)

\* the number of events e printed before position i of the console output
CountBefore(i, e) == Cardinality({j \in 1..(i - 1) : out[j].ev = e})

\* the number of events e printed so far
CountOf(e) == CountBefore(Len(out) + 1, e)

\* the position in the output of the r-th event e
NthEvent(r, e) ==
    CHOOSE i \in 1..Len(out) : out[i].ev = e /\ CountBefore(i, e) = r - 1

\* C1: in every fair-random round the HMAC is printed before the user is asked
\* for a contribution, and the secret and the key are printed only after
\* computeResult was called on that round's generator with the accepted
\* contribution: at every prompt for a guess or a throw exactly one printed
\* digest is still unrevealed, and every reveal follows such a prompt and a
\* computeResult call of its round.
C1_DigestBeforeInputRevealAfterCombine ==
    /\ \A i \in 1..Len(out) :
          (out[i].ev = "prompt" /\ out[i].kind \in {"guess", "throw"})
             => CountBefore(i, "hmac") = CountBefore(i, "reveal") + 1
    /\ \A i \in 1..Len(out) :
          out[i].ev = "reveal"
             => LET r == CountBefore(i, "reveal") + 1
                IN  /\ CountBefore(i, "hmac") = r
                    /\ r <= Len(combines)
                    /\ Len(combines[r]) >= 1
                    /\ \E j \in (NthEvent(r, "hmac") + 1)..(i - 1) :
                          /\ out[j].ev = "prompt"
                          /\ out[j].kind \in {"guess", "throw"}
                          /\ Includes(out[j].options, IntToString(combines[r][1]))

\* C1 witness: a finished game, whose three rounds each printed a digest, asked
\* the user and revealed
C1_Witness ==
    pc = "done" /\ CountOf("hmac") = 3 /\ CountOf("reveal") = 3

\* the digest a third party computes from a revealed secret and the hex text
\* of the key: the keyed hash of the 4-byte big-endian encoding of the secret
BigEndian4(x) ==
    [i \in 1..4 |-> (x \div (256 ^ (4 - i))) % 256]
VerifierDigest(keyHex, x) == HmacDigest(FromHex(keyHex), BigEndian4(x))

\* C2: the digest recomputed from the key and the secret printed at the end of
\* a round equals the digest printed at the start of that round, and from the
\* time a digest is printed until the reveal the round's generator still holds
\* the key, secret and digest that were committed to.
C2_RevealMatchesDigest ==
    /\ \A i \in 1..Len(out) :
          out[i].ev = "reveal"
             => LET r == CountBefore(i, "reveal") + 1
                IN  VerifierDigest(out[i].key, out[i].x)
                       = out[NthEvent(r, "hmac")].hmac
    /\ pc \in {"dfp_prompt", "dfp_compute", "dfp_reveal",
               "roll_prompt", "roll_compute", "roll_reveal"}
          => /\ fr = CountOf("hmac")
             /\ gens[fr].hmac = out[NthEvent(fr, "hmac")].hmac
             /\ VerifierDigest(ToHex(gens[fr].key), gens[fr].x) = gens[fr].hmac

\* C2 witness: a non-zero secret was revealed after the user asked for help or
\* typed an invalid option on the way
C2_Witness ==
    /\ Retries(out) > 0
    /\ \E i \in 1..Len(out) : out[i].ev = "reveal" /\ out[i].x > 0

\* C7: a throw of a one-face die (performFairRoll(0)) commits to the secret 0,
\* accepts only the option 0, combines to 0 and never ends in an error.
C7_OneFaceRoll ==
    /\ pc # "error"
    /\ (max = 0 /\ pc \in {"roll_hmac", "roll_prompt", "roll_compute",
                           "roll_reveal", "roll_result"})
          => gens[fr].rangeSize = 0 /\ gens[fr].x = 0
    /\ (max = 0 /\ pc = "roll_compute") => userChoice = "0"
    /\ (max = 0 /\ pc \in {"roll_reveal", "roll_result", "roll_return"})
          => userY = 0 /\ result = 0

\* C7 witness: the roll of a one-face die has returned
C7_Witness ==
    /\ pc = "roll_return" /\ max = 0 /\ result = 0
    /\ out[Len(out)].ev = "result" /\ out[Len(out)].mod = 1

\* C8: every round builds its own generator, and a generator is combined with
\* exactly one contribution: the generator in use is always the newest one,
\* there are as many generators as digests printed (plus the one just built),
\* no generator has seen two computeResult calls, every generator of a
\* finished round has seen exactly one, building one draws a key and a secret
\* from the random source, and a finished game has built three.
C8_OneCommitmentPerRound ==
    /\ fr \in {0, Len(gens)}
    /\ Len(combines) = Len(gens)
    /\ Len(gens) = CountOf("hmac") + (IF pc \in {"dfp_hmac", "roll_hmac"} THEN 1 ELSE 0)
    /\ \A k \in 1..Len(gens) :
          /\ Len(combines[k]) <= 1
          /\ k # fr => Len(combines[k]) = 1
    /\ \A r \in 1..CountOf("hmac") :
          out[NthEvent(r, "hmac")].hmac = gens[r].hmac
    /\ pc \in {"dfp_hmac", "roll_hmac"}
          => rngTrace = <<"randomBytes", "randomInt">>
    /\ pc \in {"declare", "done"} => Len(gens) = 3

\* C8 witness: the winner is about to be declared after three generators, each
\* combined once
C8_Witness ==
    /\ pc = "declare" /\ Len(gens) = 3
    /\ \A k \in 1..3 : Len(combines[k]) = 1

----------------------------------------------------------------------------
(* Properties of FairRandomGenerator called directly (SpecFRG) *)

\* the last call was computeResult with an argument inside [0, rangeSize]
CombineInRange ==
    h.call = "computeResult" /\ h.arg \in 0..h.obj.rangeSize

C4_CombineClosed ==
    (CombineInRange /\ h.obj.rangeSize >= 0)
       => h.ret.kind = "value" /\ h.ret.v \in 0..h.obj.rangeSize

\* C4 witness: a call on the widest range that returns the top of the range
C4_Witness ==
    /\ CombineInRange
    /\ h.obj.rangeSize = MaxRange
    /\ h.arg > 0 /\ h.obj.x > 0
    /\ h.ret.v = h.obj.rangeSize

\* C5 as claimed: computeResult called with y outside [0, rangeSize] fails
\* with an error and returns no value.
C5_OutOfRangeFails ==
    (h.call = "computeResult" /\ h.arg \notin 0..h.obj.rangeSize)
       => h.ret.kind = "error"

\* C6 as claimed: the constructor called with a negative rangeSize fails, and
\* it fails before anything was drawn from the secure random source.
C6_NegativeRangeFailsBeforeDrawing ==
    (h.call = "new" /\ h.arg < 0)
       => h.ret.kind = "error" /\ rngTrace = <<>>

----------------------------------------------------------------------------
(* Properties of calculateWinProbability (SpecProb) *)

\* the pairs of positions (i, j) with a[i] related to b[j]
WinPairs(a, b) == {p \in (DOMAIN a) \X (DOMAIN b) : a[p[1]] > b[p[2]]}
TiePairs(a, b) == {p \in (DOMAIN a) \X (DOMAIN b) : a[p[1]] = b[p[2]]}

\* C9: calculateWinProbability(a, b) is the number of face pairs with
\* fa > fb over |a| * |b|, ties add to neither side, and the result lies in
\* [0, 1].
C9_WinProbabilityIsStrictCount ==
    q.called
       => /\ q.ab = <<Cardinality(WinPairs(q.a, q.b)), Len(q.a) * Len(q.b)>>
          /\ q.ab[2] > 0
          /\ 0 <= q.ab[1] /\ q.ab[1] <= q.ab[2]
          /\ q.ab[1] + Cardinality(TiePairs(q.a, q.b)) <= q.ab[2]

\* C9 witness: dice of different lengths with a win, a loss and a tie
C9_Witness ==
    /\ q.called
    /\ Len(q.a) # Len(q.b)
    /\ q.ab[1] > 0 /\ q.ba[1] > 0
    /\ TiePairs(q.a, q.b) # {}

\* C10: P(a, b) + P(b, a) <= 1 and 1 minus the sum is the fraction of tied face
\* pairs; for a = b = [1,1] both probabilities are 0.
C10_SumAndTieFraction ==
    q.called
       => /\ q.ab[2] = q.ba[2]
          /\ q.ab[1] + q.ba[1] <= q.ab[2]
          /\ q.ab[2] - (q.ab[1] + q.ba[1]) = Cardinality(TiePairs(q.a, q.b))
          /\ (q.a = <<1, 1>> /\ q.b = <<1, 1>>) => (q.ab[1] = 0 /\ q.ba[1] = 0)

\* C10 witness: the dice [1,1] and [1,1] were compared
C10_Witness ==
    q.called /\ q.a = <<1, 1>> /\ q.b = <<1, 1>> /\ q.ab = <<0, 4>>

----------------------------------------------------------------------------
(* Properties of averageWinProbability (SpecAvg) *)

\* the entries of the pool that are not the die d itself
Others(d, pool) == SelectSeq(pool, LAMBDA k : k # d)

\* the sum of the pairwise probabilities of d against the entries of others,
\* as a fraction
RECURSIVE SumAgainst(_, _, _)
SumAgainst(ds, d, others) ==
    IF others = <<>> THEN <<0, 1>>
    ELSE LET p == calculateWinProbability(ds[d], ds[Head(others)])
             r == SumAgainst(ds, d, Tail(others))
         IN  <<p[1] * r[2] + r[1] * p[2], p[2] * r[2]>>

\* C11 as claimed: averageWinProbability(d, pool) is the sum of the pairwise
\* probabilities of d against the entries of pool other than d, divided by the
\* number of those entries, whether or not d is in the pool, and it lies in
\* [0, 1] (stated for the pools of at least two entries, the pools C12 is not
\* about).
C11_AverageIsMeanOverOthers ==
    (sel.call = "averageWinProbability" /\ Len(sel.pool) >= 2)
       => LET n == Len(Others(sel.d, sel.pool))
              sum == SumAgainst(sel.ds, sel.d, Others(sel.d, sel.pool))
              v == sel.ret.v
          IN  /\ sel.ret.kind = "value"
              /\ v[2] > 0
              /\ v[1] * (sum[2] * n) = sum[1] * v[2]
              /\ 0 <= v[1] /\ v[1] <= v[2]

\* C12 as claimed: averageWinProbability fails with an error when the pool has
\* fewer than 2 distinct entries, and never returns the value of a division by
\* zero.
C12_SmallPoolFails ==
    sel.call = "averageWinProbability"
       => /\ Cardinality({sel.pool[k] : k \in DOMAIN sel.pool}) < 2
               => sel.ret.kind = "error"
          /\ sel.ret.kind = "value" => sel.ret.v[2] # 0

----------------------------------------------------------------------------
(* The non-transitive triple (SpecProb) *)

\* C13: for A = [2,2,4,4,9,9], B = [1,1,6,6,8,8], C = [3,3,5,5,7,7] the
\* probabilities of A beating B, of B beating C and of C beating A are each
\* greater than 1/2.
C13_EfronTripleIsNonTransitive ==
    q.called
       => /\ (q.a = EfronA /\ q.b = EfronB) => 2 * q.ab[1] > q.ab[2]
          /\ (q.a = EfronB /\ q.b = EfronC) => 2 * q.ab[1] > q.ab[2]
          /\ (q.a = EfronC /\ q.b = EfronA) => 2 * q.ab[1] > q.ab[2]

\* C13 witness: C was compared with A and wins 20 of the 36 face pairs
C13_Witness ==
    q.called /\ q.a = EfronC /\ q.b = EfronA /\ q.ab = <<20, 36>>

----------------------------------------------------------------------------
(* Properties of the prompts of the game (Spec) *)

AtPrompt == pc \in {"dfp_prompt", "sel_prompt", "roll_prompt"}

\* the options the prompt the game is at accepts
CurrentOptions ==
    CASE pc = "dfp_prompt" -> <<"0", "1">>
      [] pc = "sel_prompt" -> DieOptions(AvailableDice(dice, UserExclude))
      [] pc = "roll_prompt" -> RollOptions(max)
      [] OTHER -> <<>>

\* the state a help request or an invalid option must leave alone: the
\* generators with their keys, secrets and digests, the one in use, the first
\* player, the chosen dice, the pool, the range of the throw and the prompt
PromptFrame ==
    <<pc, dice, gens, fr, combines, firstPlayer, userDie, computerDie, rollOf,
      max, userY, result, computerRoll, userRoll, entropy, CurrentOptions>>

\* the events the step appended to the console output
Printed == SubSeq(out', Len(out) + 1, Len(out'))

\* a pass that reads ? prints the table and keeps the state
HelpPassKeeps ==
    (AtPrompt /\ userChoice' = "?")
       => /\ PromptFrame' = PromptFrame
          /\ Len(Printed) >= 2
          /\ Printed[1].ev = "prompt"
          /\ Printed[2] = [ev |-> "help", table |-> tableDisplay(dice)]

\* a pass that reads an option that is not accepted reports it and keeps the
\* state
InvalidPassKeeps ==
    (AtPrompt /\ userChoice' \notin {"X", "?"}
              /\ ~Includes(CurrentOptions, userChoice'))
       => /\ PromptFrame' = PromptFrame
          /\ Len(Printed) = 2
          /\ Printed[1].ev = "prompt"
          /\ Printed[2].ev = "invalid"

\* C14: at each of the three prompts, a pass that reads ? prints the
\* probability matrix and stays at the prompt, a pass that reads an option
\* that is neither X, ? nor accepted reports it and stays at the prompt, and
\* both leave the commitment, the first player, the chosen dice and the
\* accepted options as they were.
C14_HelpAndInvalidKeepState == [][HelpPassKeeps /\ InvalidPassKeeps]_vars

\* C14 witness: the user asked for help at the throw prompt, the game is still
\* at that prompt with its generator not yet combined
C14_Witness ==
    /\ pc = "roll_prompt" /\ userChoice = "?"
    /\ out[Len(out)].ev = "help"
    /\ combines[fr] = <<>>

----------------------------------------------------------------------------
(* Properties of the throws, of the dice selection and of the first move   *)
(* (Spec)                                                                  *)

\* the die a party throws
DieOf(who) == IF who = "computer" THEN dice[computerDie] ELSE dice[userDie]

IsFaceOf(value, die) ==
    value.def /\ \E i \in 1..getFaceCount(die) : getFaces(die)[i] = value.v

\* C16: the index performFairRoll returns for a die is one of 0 ..
\* faceCount - 1 of that die, so every throw value printed or compared is a
\* face of the die thrown and never undefined.
C16_ThrowIndexValid ==
    /\ pc = "roll_return"
          => /\ result \in 0..(getFaceCount(DieOf(rollOf)) - 1)
             /\ IsFaceOf(FaceAt(getFaces(DieOf(rollOf)), result), DieOf(rollOf))
    /\ \A i \in 1..Len(out) :
          out[i].ev = "throw" => IsFaceOf(out[i].value, DieOf(out[i].who))
    /\ \A i \in 1..Len(out) :
          out[i].ev = "winner"
             => /\ IsFaceOf(out[i].user, dice[userDie])
                /\ IsFaceOf(out[i].computer, dice[computerDie])

\* the user has thrown index 1 of a die of two faces
C16_Witness ==
    /\ pc = "declare" /\ userRoll = 1 /\ getFaceCount(dice[userDie]) = 2
    /\ out[Len(out)].ev = "throw" /\ out[Len(out)].value.def

Positions == [i \in 1..Len(dice) |-> i]

\* the positions of the pool without one die, in the order of the pool
PoolWithout(d) == SelectSeq(Positions, LAMBDA e : e # d)

DiePrompts == {i \in 1..Len(out) : out[i].ev = "prompt" /\ out[i].kind = "die"}

\* C17: after selectDice the user's die and the computer's die are two
\* different positions of dice; the party that chooses second is offered the
\* pool without the die of the first, nothing more and nothing less; and the
\* user's die is the one the prompt listed at the index that was typed.
C17_DistinctDiceByIdentity ==
    /\ \A i \in 1..Len(out) :
          out[i].ev = "chose"
             => /\ out[i].user = userDie /\ out[i].computer = computerDie
                /\ userDie \in 1..Len(dice) /\ computerDie \in 1..Len(dice)
                /\ userDie # computerDie
    /\ \A i \in DiePrompts :
          /\ out[i].listed = IF firstPlayer = "user" THEN Positions
                             ELSE PoolWithout(computerDie)
          /\ out[i].options = [k \in 1..Len(out[i].listed) |-> IntToString(k - 1)]
    /\ pc \in {"sel_return", "throws"}
          => \E i \in DiePrompts :
                /\ \A j \in DiePrompts : j <= i
                /\ \E k \in 1..Len(out[i].listed) :
                      /\ userChoice = IntToString(k - 1)
                      /\ pc = "throws" => userDie = out[i].listed[k]
    /\ (pc = "throws" /\ firstPlayer = "user")
          => Includes(PoolWithout(userDie), computerDie)

\* the computer chose first, and the user took the other die with the same
\* faces by typing the index it was listed at
C17_Witness ==
    /\ pc = "throws" /\ firstPlayer = "computer"
    /\ userDie # computerDie /\ dice[userDie] = dice[computerDie]
    /\ userChoice = "0" /\ userDie = 2

\* the first and only line "The fair number generation result" of the first
\* round, and the line that names the first player
FirstResult == out[NthEvent(1, "result")]
FirstAnnounced == out[NthEvent(1, "first")]

\* C19: the user moves first exactly when the guess equals the secret the
\* computer committed to, which is exactly when the displayed result
\* (secret + guess) mod 2 is 0; otherwise the computer moves first.
C19_FirstMoveIffGuessed ==
    CountOf("first") > 0
       => /\ FirstResult.x = getX(gens[1]) /\ combines[1] = <<FirstResult.y>>
          /\ FirstResult.mod = 2
          /\ FirstResult.result = (FirstResult.x + FirstResult.y) % 2
          /\ firstPlayer \in {"user", "computer"}
          /\ FirstAnnounced.who = firstPlayer
          /\ (firstPlayer = "user") <=> (FirstResult.y = FirstResult.x)
          /\ (firstPlayer = "user") <=> (FirstResult.result = 0)
          /\ (firstPlayer = "computer") <=> (FirstResult.result = 1)

\* the user guessed the secret 1: the displayed result is (1 + 1) mod 2 = 0
C19_Witness ==
    /\ pc = "select" /\ firstPlayer = "user"
    /\ FirstResult.x = 1 /\ FirstResult.y = 1 /\ FirstResult.result = 0

----------------------------------------------------------------------------
(* Termination and the order of the rounds (SpecFair) *)

\* the position in out of the r-th event e
At(r, e) == NthEvent(r, e)

\* the log of a whole game: three digests and three reveals, each reveal
\* after its digest, in the order first player, computer's throw, user's
\* throw, and the result declared last
ThreeRoundsInOrder ==
    /\ Len(gens) = 3
    /\ CountOf("hmac") = 3 /\ CountOf("reveal") = 3 /\ CountOf("result") = 3
    /\ CountOf("finding") = 1 /\ CountOf("first") = 1
    /\ CountOf("turn") = 2 /\ CountOf("throw") = 2 /\ CountOf("winner") = 1
    /\ out[At(1, "turn")].who = "computer" /\ out[At(2, "turn")].who = "user"
    /\ out[At(1, "throw")].who = "computer" /\ out[At(2, "throw")].who = "user"
    /\ At(1, "finding") < At(1, "hmac")
    /\ At(1, "hmac") < At(1, "reveal") /\ At(1, "reveal") < At(1, "first")
    /\ At(1, "first") < At(1, "turn")
    /\ At(1, "turn") < At(2, "hmac")
    /\ At(2, "hmac") < At(2, "reveal") /\ At(2, "reveal") < At(1, "throw")
    /\ At(1, "throw") < At(2, "turn")
    /\ At(2, "turn") < At(3, "hmac")
    /\ At(3, "hmac") < At(3, "reveal") /\ At(3, "reveal") < At(2, "throw")
    /\ At(2, "throw") < At(1, "winner")
    /\ At(1, "winner") = Len(out)
    /\ out[Len(out)].who \in {"user", "computer", "draw"}

\* the step that follows an X creates no generator and prints no digest, no
\* secret and no key; and no step follows it
ExitIsFinal ==
    /\ pc # "exit"
    /\ pc' = "exit" => /\ gens' = gens /\ combines' = combines
                       /\ \A i \in (Len(out) + 1)..Len(out') :
                             out'[i].ev \in {"prompt", "bye"}

\* C20: a game in which the user never enters X, and leaves every prompt in
\* the end, ends with the result declared after exactly three commit-reveal
\* rounds in the order first player, computer's throw, user's throw; once
\* the user has entered X nothing more happens.
C20_TerminatesAfterThreeRounds ==
    /\ ([](pc # "exit")) => <>(pc = "done")
    /\ [](pc = "done" => ThreeRoundsInOrder)
    /\ [](CountOf("winner") > 0 => pc = "done")
    /\ [][ExitIsFinal]_vars

\* a game that was declared a draw after a prompt had to be repeated
C20_Witness ==
    /\ pc = "done" /\ ThreeRoundsInOrder
    /\ CountOf("invalid") = 1
    /\ out[Len(out)].who = "draw"

----------------------------------------------------------------------------
(* Properties of selectComputerDie (SpecSelect) *)

\* the dice left to the computer, and the chance of one of them against the
\* user's die
Remaining == {i \in 1..Len(sel.ds) : i # sel.d}
Against(i) == calculateWinProbability(sel.ds[i], sel.ds[sel.d])
Chosen == sel.ret.v[1]

\* C18: after the user's choice selectComputerDie returns a die of the
\* remaining pool, no remaining die wins against the user's die with a
\* higher probability, and every remaining die before it in the order of
\* dice wins with a strictly lower one.
C18_BestAgainstUserFirstOfTies ==
    sel.call = "selectComputerDie"
       => /\ Chosen \in Remaining
          /\ \A i \in Remaining : ~ProbGreater(Against(i), Against(Chosen))
          /\ \A i \in Remaining :
                i < Chosen => ProbGreater(Against(Chosen), Against(i))

\* two of three remaining dice share the highest probability, after a die
\* with a lower one: the first of the two is returned
C18_Witness ==
    /\ sel.call = "selectComputerDie"
    /\ Len(sel.ds) = 4 /\ sel.d = 1 /\ Chosen = 3
    /\ ProbGreater(Against(3), Against(2))
    /\ ~ProbGreater(Against(3), Against(4)) /\ ~ProbGreater(Against(4), Against(3))

----------------------------------------------------------------------------
(* Properties of parseDice (SpecParse) *)

\* a face token is an integer literal: one or more decimal digits, white
\* space around them allowed
IsIntegerLiteral(token) ==
    /\ Trim(token) # <<>>
    /\ \A i \in 1..Len(Trim(token)) : IsDigit(Trim(token)[i])

\* C15 as claimed: parseDice rejects with an error every command line in
\* which some face token is not an integer literal, such as 3a or 1.5, and
\* builds no Dice from it.
C15_NonIntegerFaceRejected ==
    (prs.called /\ \E k \in 1..Len(prs.args) :
                      \E i \in 1..Len(Split(prs.args[k], <<>>)) :
                         ~IsIntegerLiteral(Split(prs.args[k], <<>>)[i]))
       => prs.ret.kind = "error" /\ prs.ret.dice = <<>>

====
